---------------------------- MODULE Spec2Model ----------------------------
(***************************************************************************)
(* Model of the two icon generators of convertify:                         *)
(*   generate-icons.py                  ("full" generator)                 *)
(*   Scripts/generate-fallback-icons.py ("fallback" generator)             *)
(*                                                                         *)
(* Spec              main() of either script, run up to MaxRuns times on   *)
(*                   the same filesystem, with I/O failures and the        *)
(*                   packer's outcome chosen by the environment.           *)
(* SpecFallbackGradient, SpecFullGradient                                  *)
(*                   create_gradient_background(size), row by row.         *)
(* SpecLogoFit       the resize/centre arithmetic of fallback create_icon. *)
(*                                                                         *)
(* Floating point.  The scripts compute fractions as IEEE doubles and      *)
(* truncate with int().  The model computes the same quotients exactly on  *)
(* integers (Trunc).  For every size, pixel and logo dimension inside the  *)
(* bounds used below (and inside the bounds raised by one) the double      *)
(* computation and the exact one give the same integer; this was checked   *)
(* by running the Python expressions over those ranges.                    *)
(***************************************************************************)
EXTENDS Integers, Sequences, FiniteSets, TLC

VARIABLES
    script,     \* which script runs: "full" or "fallback"
    logo,       \* the logo file on disk (NoFile when missing)
    shadow,     \* the shadow file on disk (NoFile when missing)
    fs,         \* the output part of the filesystem
    pc,         \* position of main(): start, loop, manifest, icns, returned, uncaught
    idx,        \* 1-based index of the ICON_SIZES entry the loop is at
    exit_code,  \* value handed to exit(); -1 while main() runs
    log,        \* writes and packer invocations of this run, in order
    printed,    \* tags of the messages this run printed
    env,        \* what the environment did to this run: I/O fault, packer outcome
    run,        \* number of the current invocation of the script
    prev,       \* summary of the previous invocation
    gsize,      \* gradient: size argument
    gy,         \* gradient: next row of the outer loop
    img,        \* gradient: pixels put so far, (x, y) -> colour
    entry,      \* logo fit: index of the catalog entry
    lw,         \* logo fit: logo.width
    lh,         \* logo fit: logo.height
    fit         \* logo fit: stage and computed geometry

vars == <<script, logo, shadow, fs, pc, idx, exit_code, log, printed, env,
          run, prev, gsize, gy, img, entry, lw, lh, fit>>

mainVars == <<script, logo, shadow, fs, pc, idx, exit_code, log, printed, env,
              run, prev>>
gradVars == <<gsize, gy, img>>
fitVars  == <<entry, lw, lh, fit>>

---------------------------------------------------------------------------
(* Bounds *)

MaxRuns == 2        \* invocations of the script in one behaviour
NumLogos == 2       \* distinct logo images (w x 1, w in 1..NumLogos)
NumShadows == 1     \* distinct shadow images
MaxGradSize == 32   \* gradient sizes 1..MaxGradSize
MaxLogoDim == 13    \* logo width and height 1..MaxLogoDim

---------------------------------------------------------------------------
(* int(): truncation toward zero of num/den, den > 0 *)

Trunc(num, den) ==
    IF num >= 0 THEN num \div den ELSE -((-num) \div den)

---------------------------------------------------------------------------
(* The catalog *)

ICON_SIZES ==
    << <<16, 1, "icon_16x16.png">>,
       <<16, 2, "icon_16x16@2x.png">>,
       <<32, 1, "icon_32x32.png">>,
       <<32, 2, "icon_32x32@2x.png">>,
       <<128, 1, "icon_128x128.png">>,
       <<128, 2, "icon_128x128@2x.png">>,
       <<256, 1, "icon_256x256.png">>,
       <<256, 2, "icon_256x256@2x.png">>,
       <<512, 1, "icon_512x512.png">>,
       <<512, 2, "icon_512x512@2x.png">> >>

Fallback_ICON_SIZES ==
    << <<16, 1, "icon_16x16.png">>,
       <<16, 2, "icon_16x16@2x.png">>,
       <<32, 1, "icon_32x32.png">>,
       <<32, 2, "icon_32x32@2x.png">>,
       <<128, 1, "icon_128x128.png">>,
       <<128, 2, "icon_128x128@2x.png">>,
       <<256, 1, "icon_256x256.png">>,
       <<256, 2, "icon_256x256@2x.png">>,
       <<512, 1, "icon_512x512.png">>,
       <<512, 2, "icon_512x512@2x.png">> >>

Catalog(s) == IF s = "full" THEN ICON_SIZES ELSE Fallback_ICON_SIZES

PngNames == {ICON_SIZES[i][3] : i \in 1..Len(ICON_SIZES)}
               \cup {Fallback_ICON_SIZES[i][3] : i \in 1..Len(Fallback_ICON_SIZES)}

ContentsName == "Contents.json"

FileNames == PngNames \cup {ContentsName}

---------------------------------------------------------------------------
(* Files *)

NoFile == [kind |-> "none"]

\* A file left in the output directory by something other than this run.
Stale == [kind |-> "stale"]

LogoFiles == {NoFile} \cup {[kind |-> "logo", w |-> k, h |-> 1] : k \in 1..NumLogos}

ShadowFiles(s) ==
    IF s = "full"
    THEN {NoFile} \cup {[kind |-> "shadow", id |-> k] : k \in 1..NumShadows}
    ELSE {NoFile}

FreshFs ==
    [output_dir |-> FALSE,
     files |-> [n \in FileNames |-> NoFile],
     resources_dir |-> FALSE,
     iconset_dir |-> FALSE,
     iconset |-> [n \in PngNames |-> NoFile],
     icns |-> NoFile]

StaleFs ==
    [FreshFs EXCEPT !.output_dir = TRUE,
                    !.files = [n \in FileNames |-> Stale]]

---------------------------------------------------------------------------
(* The manifest *)

\* Mutant: one entry carries the size label of another.
update_contents_json_typo ==
    [images |-> <<
          [filename |-> "icon_16x16.png", idiom |-> "mac", scale |-> "1x", size |-> "16x16"],
          [filename |-> "icon_16x16@2x.png", idiom |-> "mac", scale |-> "2x", size |-> "16x16"],
          [filename |-> "icon_32x32.png", idiom |-> "mac", scale |-> "1x", size |-> "32x32"],
          [filename |-> "icon_32x32@2x.png", idiom |-> "mac", scale |-> "2x", size |-> "32x32"],
          [filename |-> "icon_128x128.png", idiom |-> "mac", scale |-> "1x", size |-> "128x128"],
          [filename |-> "icon_128x128@2x.png", idiom |-> "mac", scale |-> "2x", size |-> "128x128"],
          [filename |-> "icon_256x256.png", idiom |-> "mac", scale |-> "1x", size |-> "256x256"],
          [filename |-> "icon_256x256@2x.png", idiom |-> "mac", scale |-> "2x", size |-> "512x512"],
          [filename |-> "icon_512x512.png", idiom |-> "mac", scale |-> "1x", size |-> "512x512"],
          [filename |-> "icon_512x512@2x.png", idiom |-> "mac", scale |-> "2x", size |-> "512x512"] >>,
     info |-> [author |-> "xcode", version |-> 1]]

update_contents_json ==
    [images |-> <<
          [filename |-> "icon_16x16.png", idiom |-> "mac", scale |-> "1x", size |-> "16x16"],
          [filename |-> "icon_16x16@2x.png", idiom |-> "mac", scale |-> "2x", size |-> "16x16"],
          [filename |-> "icon_32x32.png", idiom |-> "mac", scale |-> "1x", size |-> "32x32"],
          [filename |-> "icon_32x32@2x.png", idiom |-> "mac", scale |-> "2x", size |-> "32x32"],
          [filename |-> "icon_128x128.png", idiom |-> "mac", scale |-> "1x", size |-> "128x128"],
          [filename |-> "icon_128x128@2x.png", idiom |-> "mac", scale |-> "2x", size |-> "128x128"],
          [filename |-> "icon_256x256.png", idiom |-> "mac", scale |-> "1x", size |-> "256x256"],
          [filename |-> "icon_256x256@2x.png", idiom |-> "mac", scale |-> "2x", size |-> "256x256"],
          [filename |-> "icon_512x512.png", idiom |-> "mac", scale |-> "1x", size |-> "512x512"],
          [filename |-> "icon_512x512@2x.png", idiom |-> "mac", scale |-> "2x", size |-> "512x512"] >>,
     info |-> [author |-> "xcode", version |-> 1]]

create_contents_json ==
    [images |-> <<
          [filename |-> "icon_16x16.png", idiom |-> "mac", scale |-> "1x", size |-> "16x16"],
          [filename |-> "icon_16x16@2x.png", idiom |-> "mac", scale |-> "2x", size |-> "16x16"],
          [filename |-> "icon_32x32.png", idiom |-> "mac", scale |-> "1x", size |-> "32x32"],
          [filename |-> "icon_32x32@2x.png", idiom |-> "mac", scale |-> "2x", size |-> "32x32"],
          [filename |-> "icon_128x128.png", idiom |-> "mac", scale |-> "1x", size |-> "128x128"],
          [filename |-> "icon_128x128@2x.png", idiom |-> "mac", scale |-> "2x", size |-> "128x128"],
          [filename |-> "icon_256x256.png", idiom |-> "mac", scale |-> "1x", size |-> "256x256"],
          [filename |-> "icon_256x256@2x.png", idiom |-> "mac", scale |-> "2x", size |-> "256x256"],
          [filename |-> "icon_512x512.png", idiom |-> "mac", scale |-> "1x", size |-> "512x512"],
          [filename |-> "icon_512x512@2x.png", idiom |-> "mac", scale |-> "2x", size |-> "512x512"] >>,
     info |-> [author |-> "xcode", version |-> 1]]

Manifest(s) ==
    [kind |-> "json",
     data |-> IF s = "full" THEN update_contents_json ELSE create_contents_json]

---------------------------------------------------------------------------
(* create_icon *)

FullLogoPercent == 80
FallbackLogoPercent == 70

\* Mutant: the scale factor is dropped.
actual_size_ignores_scale(size, scale) == size

actual_size(size, scale) == size * scale

\* Mutant: the shadow layer is composited into the icon.
CreateIconFull_with_shadow(shadow_file, logo_file, size, scale) ==
    LET a == size * scale
        logo_size == Trunc(a * FullLogoPercent, 100)
        logo_offset == (a - logo_size) \div 2
    IN  [kind |-> "png", mode |-> "RGB", side |-> a, logo |-> logo_file,
         box |-> <<logo_offset, logo_offset, logo_size, logo_size>>,
         shadow |-> shadow_file]

\* generate-icons.py create_icon: the image saved for one catalog entry.
\* shadow_path is a parameter of the function and is never read.
CreateIconFull(shadow_file, logo_file, size, scale) ==
    LET a == actual_size(size, scale)
        logo_size == Trunc(a * FullLogoPercent, 100)
        logo_offset == (a - logo_size) \div 2
    IN  [kind |-> "png", mode |-> "RGB", side |-> a, logo |-> logo_file,
         box |-> <<logo_offset, logo_offset, logo_size, logo_size>>]

\* Fallback create_icon: the resized logo's (new_width, new_height).
FitLogo(a, w, h) ==
    LET logo_size == Trunc(a * FallbackLogoPercent, 100)
    IN  IF w > h
        THEN <<logo_size, Trunc(logo_size * h, w)>>
        ELSE <<Trunc(logo_size * w, h), logo_size>>

\* Fallback create_icon: (x_offset, y_offset).
CenterLogo(a, new_width, new_height) ==
    <<(a - new_width) \div 2, (a - new_height) \div 2>>

CreateIconFallback(logo_file, size, scale) ==
    LET a == actual_size(size, scale)
        d == FitLogo(a, logo_file.w, logo_file.h)
        o == CenterLogo(a, d[1], d[2])
    IN  [kind |-> "png", mode |-> "RGB", side |-> a, logo |-> logo_file,
         box |-> <<o[1], o[2], d[1], d[2]>>]

CreateIcon(s, shadow_file, logo_file, size, scale) ==
    IF s = "full"
    THEN CreateIconFull(shadow_file, logo_file, size, scale)
    ELSE CreateIconFallback(logo_file, size, scale)

---------------------------------------------------------------------------
(* generate_icns *)

icon_mapping ==
    << <<"icon_16x16.png", "icon_16x16.png">>,
       <<"icon_16x16@2x.png", "icon_16x16@2x.png">>,
       <<"icon_32x32.png", "icon_32x32.png">>,
       <<"icon_32x32@2x.png", "icon_32x32@2x.png">>,
       <<"icon_128x128.png", "icon_128x128.png">>,
       <<"icon_128x128@2x.png", "icon_128x128@2x.png">>,
       <<"icon_256x256.png", "icon_256x256.png">>,
       <<"icon_256x256@2x.png", "icon_256x256@2x.png">>,
       <<"icon_512x512.png", "icon_512x512.png">>,
       <<"icon_512x512@2x.png", "icon_512x512@2x.png">> >>

\* The iconset directory after the first n pairs of icon_mapping were handled:
\* a pair is copied only if its source exists.
CopyIcons(f, n) ==
    [d \in PngNames |->
        IF \E i \in 1..n : icon_mapping[i][2] = d /\ f.files[icon_mapping[i][1]] # NoFile
        THEN LET i == CHOOSE j \in 1..n :
                         icon_mapping[j][2] = d /\ f.files[icon_mapping[j][1]] # NoFile
             IN  f.files[icon_mapping[i][1]]
        ELSE f.iconset[d]]

\* What the environment can do to one call of generate_icns.
PackerOutcomes ==
    {"ok", "nonzero", "raise_makedirs", "raise_copy", "raise_run", "raise_rmtree"}

\* Mutant: the exception is not caught.
generate_icns_except_reraise(e) == "raise"

\* except Exception as e: print, return False
generate_icns_except(e) == "False"

\* generate_icns under outcome o (k: pairs copied before a failing copy).
\* ret is "True", "False", or "raise" when an exception leaves the function.
generate_icns(f, o, k) ==
    LET copied == [f EXCEPT !.iconset_dir = TRUE,
                            !.iconset = CopyIcons(f, Len(icon_mapping))]
        packed == [kind |-> "icns", from |-> copied.iconset]
    IN  CASE o = "raise_makedirs" ->
               [fs |-> f, ret |-> generate_icns_except(o),
                printed |-> {"error_generating_icns"}, invoked |-> FALSE]
          [] o = "raise_copy" ->
               [fs |-> [f EXCEPT !.iconset_dir = TRUE, !.iconset = CopyIcons(f, k)],
                ret |-> generate_icns_except(o),
                printed |-> {"error_generating_icns"}, invoked |-> FALSE]
          [] o = "raise_run" ->
               [fs |-> copied, ret |-> generate_icns_except(o),
                printed |-> {"error_generating_icns"}, invoked |-> FALSE]
          [] o = "nonzero" ->
               [fs |-> copied, ret |-> "False",
                printed |-> {"error_creating_icns"}, invoked |-> TRUE]
          [] o = "raise_rmtree" ->
               [fs |-> [copied EXCEPT !.icns = packed],
                ret |-> generate_icns_except(o),
                printed |-> {"created_icns", "error_generating_icns"}, invoked |-> TRUE]
          [] OTHER ->
               [fs |-> [copied EXCEPT !.icns = packed,
                                      !.iconset_dir = FALSE,
                                      !.iconset = [d \in PngNames |-> NoFile]],
                ret |-> "True",
                printed |-> {"created_icns"}, invoked |-> TRUE]

---------------------------------------------------------------------------
(* main() *)

\* os.makedirs(path, exist_ok=...): raises when the directory exists and
\* exist_ok is false.
makedirs(exists, exist_ok) == IF exists /\ ~exist_ok THEN "raise" ELSE "ok"

\* Mutant: os.makedirs(output_dir) without exist_ok.
OutputDirExistOk_false == FALSE

\* os.makedirs(output_dir, exist_ok=True)
OutputDirExistOk == TRUE

NoEnv == [fault |-> "none", packer |-> "none", ret |-> "none"]

NoPrev ==
    [logo |-> NoFile, shadow |-> NoFile, output_dir |-> FALSE,
     files |-> FreshFs.files, exit_code |-> -1, pc |-> "start",
     log |-> <<>>, env |-> NoEnv]

\* The summary kept of an invocation into which the environment injected an
\* I/O failure: only that it was one.
FaultyPrev == [NoPrev EXCEPT !.pc = "uncaught", !.exit_code = 1,
                             !.env = [NoEnv EXCEPT !.fault = "io"]]

\* A write that raised left the file as it was, or truncated.
Truncated == [kind |-> "truncated"]

Uncaught(fault) ==
    /\ pc' = "uncaught"
    /\ exit_code' = 1
    /\ env' = [env EXCEPT !.fault = fault]

StartMessages ==
    (IF script = "full" /\ shadow = NoFile THEN {"warning_shadow"} ELSE {})
        \cup (IF logo = NoFile THEN {"error_logo"} ELSE {})

\* Mutant: the output directory is created before the logo is checked.
MainStart_mkdir_first ==
    /\ pc = "start"
    /\ printed' = printed \cup StartMessages
    /\ fs' = [fs EXCEPT !.output_dir = TRUE]
    /\ IF logo = NoFile
       THEN pc' = "returned" /\ exit_code' = 1 /\ UNCHANGED idx
       ELSE pc' = "loop" /\ idx' = 1 /\ UNCHANGED exit_code
    /\ UNCHANGED <<script, logo, shadow, log, run, prev, env>>

\* From the entry of main() to the start of the loop: the existence checks and
\* os.makedirs(output_dir, exist_ok=True).
MainStart ==
    /\ pc = "start"
    /\ printed' = printed \cup StartMessages
    /\ \/ /\ logo = NoFile
          /\ pc' = "returned"
          /\ exit_code' = 1
          /\ UNCHANGED <<fs, idx, env>>
       \/ /\ logo # NoFile
          /\ makedirs(fs.output_dir, OutputDirExistOk) = "ok"
          /\ fs' = [fs EXCEPT !.output_dir = TRUE]
          /\ pc' = "loop"
          /\ idx' = 1
          /\ UNCHANGED <<exit_code, env>>
       \/ \* FileExistsError: excluded by exist_ok=True
          /\ logo # NoFile
          /\ makedirs(fs.output_dir, OutputDirExistOk) = "raise"
          /\ Uncaught("none")
          /\ UNCHANGED <<fs, idx>>
       \/ /\ logo # NoFile
          /\ Uncaught("makedirs")
          /\ UNCHANGED <<fs, idx>>
    /\ UNCHANGED <<script, logo, shadow, log, run, prev>>

\* Mutant: a failing create_icon is swallowed and the loop goes on.
MainCreateIcon_swallow ==
    /\ pc = "loop"
    /\ LET e == Catalog(script)[idx]
           png == CreateIcon(script, shadow, logo, e[1], e[2])
       IN  \/ /\ fs' = [fs EXCEPT !.files[e[3]] = png]
              /\ log' = Append(log, [op |-> "png", name |-> e[3], content |-> png])
              /\ UNCHANGED env
           \/ /\ env' = [env EXCEPT !.fault = "create_icon"]
              /\ UNCHANGED <<fs, log>>
    /\ IF idx < Len(Catalog(script))
       THEN idx' = idx + 1 /\ pc' = "loop"
       ELSE idx' = idx /\ pc' = "manifest"
    /\ UNCHANGED <<script, logo, shadow, printed, run, prev, exit_code>>

\* One iteration of "for size, scale, filename in ICON_SIZES: create_icon(...)".
MainCreateIcon ==
    /\ pc = "loop"
    /\ LET e == Catalog(script)[idx]
           png == CreateIcon(script, shadow, logo, e[1], e[2])
       IN  \/ /\ fs' = [fs EXCEPT !.files[e[3]] = png]
              /\ log' = Append(log, [op |-> "png", name |-> e[3], content |-> png])
              /\ IF idx < Len(Catalog(script))
                 THEN idx' = idx + 1 /\ pc' = "loop"
                 ELSE idx' = idx /\ pc' = "manifest"
              /\ UNCHANGED <<exit_code, env>>
           \/ /\ \E left \in {fs.files[e[3]], Truncated} :
                    fs' = [fs EXCEPT !.files[e[3]] = left]
              /\ Uncaught("create_icon")
              /\ UNCHANGED <<idx, log>>
    /\ UNCHANGED <<script, logo, shadow, printed, run, prev>>

\* update_contents_json(output_dir) / create_contents_json(output_dir), and
\* for the fallback script the rest of main().
MainUpdateContents ==
    /\ pc = "manifest"
    /\ \/ /\ fs' = [fs EXCEPT !.files[ContentsName] = Manifest(script)]
          /\ log' = Append(log, [op |-> "manifest", name |-> ContentsName,
                                 content |-> Manifest(script)])
          /\ IF script = "full"
             THEN pc' = "icns" /\ UNCHANGED exit_code
             ELSE pc' = "returned" /\ exit_code' = 0
          /\ UNCHANGED env
       \/ /\ \E left \in {fs.files[ContentsName], Truncated} :
                fs' = [fs EXCEPT !.files[ContentsName] = left]
          /\ Uncaught("contents_json")
          /\ UNCHANGED log
    /\ UNCHANGED <<script, logo, shadow, idx, printed, run, prev>>

\* os.makedirs(dirname(icns_path), exist_ok=True); generate_icns(...); return 0
MainGenerateIcns ==
    /\ pc = "icns"
    /\ \/ /\ Uncaught("resources_dir")
          /\ UNCHANGED <<fs, log, printed>>
       \/ \E o \in PackerOutcomes :
          \E k \in (IF o = "raise_copy" THEN 0..(Len(icon_mapping) - 1) ELSE {0}) :
            LET r == generate_icns([fs EXCEPT !.resources_dir = TRUE], o, k)
            IN  /\ fs' = r.fs
                /\ printed' = printed \cup r.printed
                /\ log' = IF r.invoked
                          THEN Append(log, [op |-> "pack", name |-> "iconutil",
                                            content |-> CopyIcons(fs, Len(icon_mapping))])
                          ELSE log
                /\ env' = [env EXCEPT !.packer = o, !.ret = r.ret]
                /\ IF r.ret = "raise"
                   THEN pc' = "uncaught" /\ exit_code' = 1
                   ELSE pc' = "returned" /\ exit_code' = 0
    /\ UNCHANGED <<script, logo, shadow, idx, run, prev>>

\* exit(main()), and the script is started again on the same filesystem,
\* the input files possibly replaced in between.
Rerun ==
    /\ pc \in {"returned", "uncaught"}
    /\ run < MaxRuns
    /\ prev' = IF env.fault = "none"
                THEN [logo |-> logo, shadow |-> shadow, output_dir |-> fs.output_dir,
                      files |-> fs.files, exit_code |-> exit_code, pc |-> pc,
                      log |-> log, env |-> env]
                ELSE FaultyPrev
    /\ run' = run + 1
    /\ logo' \in LogoFiles
    /\ shadow' \in ShadowFiles(script)
    /\ pc' = "start"
    /\ idx' = 1
    /\ exit_code' = -1
    /\ log' = <<>>
    /\ printed' = {}
    /\ env' = NoEnv
    /\ UNCHANGED <<script, fs>>

GradIdle == gsize = 0 /\ gy = 0 /\ img = <<>>
FitIdle == entry = 0 /\ lw = 0 /\ lh = 0 /\ fit = [stage |-> "idle"]

Init ==
    /\ script \in {"full", "fallback"}
    /\ logo \in LogoFiles
    /\ shadow \in ShadowFiles(script)
    /\ fs \in {FreshFs, StaleFs}
    /\ pc = "start"
    /\ idx = 1
    /\ exit_code = -1
    /\ log = <<>>
    /\ printed = {}
    /\ env = NoEnv
    /\ run = 1
    /\ prev = NoPrev
    /\ GradIdle
    /\ FitIdle

Next ==
    \/ MainStart /\ UNCHANGED <<gradVars, fitVars>>
    \/ MainCreateIcon /\ UNCHANGED <<gradVars, fitVars>>
    \/ MainUpdateContents /\ UNCHANGED <<gradVars, fitVars>>
    \/ MainGenerateIcns /\ UNCHANGED <<gradVars, fitVars>>
    \/ Rerun /\ UNCHANGED <<gradVars, fitVars>>

Spec == Init /\ [][Next]_vars

---------------------------------------------------------------------------
(* create_gradient_background, fallback script *)

color_top == <<57, 62, 62>>
color_bottom == <<34, 36, 43>>

\* gradient_end = 0.7, as the fraction GradientEndNum / GradientEndDen
GradientEndNum == 7
GradientEndDen == 10

Pixels(size) == (0..(size - 1)) \X (0..(size - 1))

\* Mutant: y / size.
Fraction_over_size(y, size) == IF size > 1 THEN <<y, size>> ELSE <<0, 1>>

\* y / (size - 1) if size > 1 else 0, as <<numerator, denominator>>
Fraction(y, size) == IF size > 1 THEN <<y, size - 1>> ELSE <<0, 1>>

\* Mutant: t = ty, the division by gradient_end forgotten.
FallbackRowColor_no_rescale(size, y) ==
    LET ty == Fraction(y, size)
    IN  IF ty[1] * GradientEndDen <= GradientEndNum * ty[2]
        THEN [c \in 1..3 |->
                Trunc(color_top[c] * ty[2] + (color_bottom[c] - color_top[c]) * ty[1], ty[2])]
        ELSE color_bottom

\* The (r, g, b) the outer loop computes for row y.
FallbackRowColor(size, y) ==
    LET ty == Fraction(y, size)
    IN  IF ty[1] * GradientEndDen <= GradientEndNum * ty[2]
        THEN \* t = ty / gradient_end;  int(top + (bottom - top) * t)
             LET tn == ty[1] * GradientEndDen
                 td == ty[2] * GradientEndNum
             IN  [c \in 1..3 |->
                    Trunc(color_top[c] * td + (color_bottom[c] - color_top[c]) * tn, td)]
        ELSE color_bottom

\* img = Image.new("RGB", (size, size))
FallbackGradInit ==
    /\ gsize \in 1..MaxGradSize
    /\ gy = 0
    /\ img = [p \in Pixels(gsize) |-> <<0, 0, 0>>]

\* One iteration of "for y in range(size)", its "for x in range(size)" included.
FallbackGradRow ==
    /\ gy < gsize
    /\ img' = [p \in Pixels(gsize) |->
                 IF p[2] = gy THEN FallbackRowColor(gsize, gy) ELSE img[p]]
    /\ gy' = gy + 1
    /\ UNCHANGED gsize

MainIdle ==
    /\ script = "none" /\ logo = NoFile /\ shadow = NoFile /\ fs = FreshFs
    /\ pc = "idle" /\ idx = 1 /\ exit_code = -1 /\ log = <<>> /\ printed = {}
    /\ env = NoEnv /\ run = 1 /\ prev = NoPrev

InitFallbackGradient == MainIdle /\ FallbackGradInit /\ FitIdle

NextFallbackGradient == FallbackGradRow /\ UNCHANGED <<mainVars, fitVars>>

SpecFallbackGradient == InitFallbackGradient /\ [][NextFallbackGradient]_vars

---------------------------------------------------------------------------
(* create_gradient_background, full generator *)

color_tl == <<20, 45, 55>>
color_tr == <<35, 40, 70>>
color_bl == <<25, 50, 65>>
color_br == <<55, 30, 75>>

\* int(a + (b - a) * t) for t = f[1] / f[2]
Lerp(a, b, f) == Trunc(a * f[2] + (b - a) * f[1], f[2])

\* The (r, g, b, 255) put at (x, y).
FullPixelColor(size, x, y) ==
    LET tx == Fraction(x, size)
        ty == Fraction(y, size)
        top == [c \in 1..3 |-> Lerp(color_tl[c], color_tr[c], tx)]
        bot == [c \in 1..3 |-> Lerp(color_bl[c], color_br[c], tx)]
    IN  <<Lerp(top[1], bot[1], ty), Lerp(top[2], bot[2], ty),
          Lerp(top[3], bot[3], ty), 255>>

\* img = Image.new("RGBA", (size, size), (0, 0, 0, 255))
FullGradInit ==
    /\ gsize \in 1..MaxGradSize
    /\ gy = 0
    /\ img = [p \in Pixels(gsize) |-> <<0, 0, 0, 255>>]

\* One iteration of "for y in range(size)", its "for x in range(size)" included.
FullGradRow ==
    /\ gy < gsize
    /\ img' = [p \in Pixels(gsize) |->
                 IF p[2] = gy THEN FullPixelColor(gsize, p[1], gy) ELSE img[p]]
    /\ gy' = gy + 1
    /\ UNCHANGED gsize

InitFullGradient == MainIdle /\ FullGradInit /\ FitIdle

NextFullGradient == FullGradRow /\ UNCHANGED <<mainVars, fitVars>>

SpecFullGradient == InitFullGradient /\ [][NextFullGradient]_vars

---------------------------------------------------------------------------
(* Fallback create_icon: resizing and centring the logo *)

FitInit ==
    /\ entry \in 1..Len(Fallback_ICON_SIZES)
    /\ lw \in 1..MaxLogoDim
    /\ lh \in 1..MaxLogoDim
    /\ fit = [stage |-> "loaded"]

FitActualSize == actual_size(Fallback_ICON_SIZES[entry][1], Fallback_ICON_SIZES[entry][2])

\* logo_size, logo_aspect, new_width, new_height
FitResize ==
    /\ fit.stage = "loaded"
    /\ LET d == FitLogo(FitActualSize, lw, lh)
       IN  fit' = [stage |-> "resized", new_width |-> d[1], new_height |-> d[2]]
    /\ UNCHANGED <<entry, lw, lh>>

\* x_offset, y_offset
FitCenter ==
    /\ fit.stage = "resized"
    /\ LET o == CenterLogo(FitActualSize, fit.new_width, fit.new_height)
       IN  fit' = [stage |-> "centered",
                   new_width |-> fit.new_width, new_height |-> fit.new_height,
                   x_offset |-> o[1], y_offset |-> o[2]]
    /\ UNCHANGED <<entry, lw, lh>>

InitLogoFit == MainIdle /\ GradIdle /\ FitInit

NextLogoFit ==
    \/ FitResize /\ UNCHANGED <<mainVars, gradVars>>
    \/ FitCenter /\ UNCHANGED <<mainVars, gradVars>>

SpecLogoFit == InitLogoFit /\ [][NextLogoFit]_vars

---------------------------------------------------------------------------
(* Properties of main() *)

Terminated == pc \in {"returned", "uncaught"}

\* No I/O failure was injected into this run's open/save/makedirs calls.
NoFault == env.fault = "none"

ManifestWritten ==
    /\ \E i \in 1..Len(log) : log[i].op = "manifest"
    /\ fs.files[ContentsName] = Manifest(script)

Writes(l) == SelectSeq(l, LAMBDA e : e.op # "pack")
Packs(l) == SelectSeq(l, LAMBDA e : e.op = "pack")

\* C1: when the logo file is missing at the start of main(), main() prints the
\* error and returns 1 in that very step, and the step creates nothing: the
\* filesystem is unchanged, nothing was written and the packer was not invoked;
\* in the full generator with the shadow present or missing.
C1_MissingLogoLeavesNoOutput ==
    [][ (pc = "start" /\ logo = NoFile /\ pc' # "start")
          => /\ pc' = "returned"
             /\ exit_code' = 1
             /\ "error_logo" \in printed'
             /\ fs' = fs
             /\ log' = <<>> ]_vars

C1_Witness ==
    /\ pc = "returned" /\ logo = NoFile /\ exit_code = 1
    /\ script = "full" /\ shadow # NoFile
    /\ fs = FreshFs /\ log = <<>>

\* C2: in the full generator, when the packer step fails (iconutil exits
\* non-zero, or an exception is raised inside generate_icns), generate_icns
\* returns False, main() returns 0, and the ten PNGs and Contents.json are on
\* disk exactly as they were written before the packer step.
C2_PackerFailureIsNotFatal ==
    (script = "full" /\ env.packer \notin {"none", "ok"})
      => /\ env.ret = "False"
         /\ pc = "returned"
         /\ exit_code = 0
         /\ Len(Writes(log)) = Len(ICON_SIZES) + 1
         /\ \A i \in 1..Len(ICON_SIZES) :
               /\ log[i].op = "png"
               /\ log[i].name = ICON_SIZES[i][3]
               /\ fs.files[ICON_SIZES[i][3]] = log[i].content
         /\ log[Len(ICON_SIZES) + 1].op = "manifest"
         /\ fs.files[ContentsName] = log[Len(ICON_SIZES) + 1].content

C2_Witness ==
    /\ script = "full" /\ env.packer = "raise_run" /\ pc = "returned"
    /\ exit_code = 0 /\ fs.iconset_dir /\ fs.icns = NoFile
    /\ \A n \in FileNames : fs.files[n].kind \in {"png", "json"}

\* C3 as stated: a run in which writing some catalog PNG fails still ends with
\* Contents.json written.
C3_ManifestDespitePngFailure ==
    (Terminated /\ env.fault = "create_icon") => ManifestWritten

\* C3 as amended: a run that passes the logo check writes Contents.json, with
\* the fixed content, exactly when none of os.makedirs(output_dir), the ten
\* create_icon calls and the manifest write itself raises; a failing PNG write
\* ends the run before the manifest step.
C3_ManifestUnlessAborted ==
    (Terminated /\ logo # NoFile)
      => (ManifestWritten <=> env.fault \notin {"makedirs", "create_icon", "contents_json"})

C3_Witness ==
    /\ Terminated /\ logo # NoFile /\ script = "fallback"
    /\ pc = "returned" /\ ManifestWritten /\ NoFault

\* C4: the writes of a run are a prefix of: the ten catalog PNGs in catalog
\* order, each a square of side base * scale saved under the entry's filename,
\* then Contents.json, then (full generator) the packer; a run that returns 0
\* has made all of the writes, and the files are on disk.
C4_CatalogOrderAndSizes ==
    LET cat == Catalog(script)
        n == Len(cat)
    IN  /\ Len(Writes(log)) <= n + 1
        /\ Len(Packs(log)) <= (IF script = "full" THEN 1 ELSE 0)
        /\ \A i \in 1..Len(log) :
              /\ i <= n => /\ log[i].op = "png"
                           /\ log[i].name = cat[i][3]
                           /\ log[i].content.side = cat[i][1] * cat[i][2]
                           /\ log[i].content.mode = "RGB"
              /\ i = n + 1 => log[i].op = "manifest"
              /\ i = n + 2 => log[i].op = "pack"
        /\ (pc = "returned" /\ exit_code = 0)
              => /\ Len(Writes(log)) = n + 1
                 /\ \A i \in 1..n : /\ fs.files[cat[i][3]] = log[i].content
                                    /\ fs.files[cat[i][3]].side = cat[i][1] * cat[i][2]

C4_Witness ==
    /\ script = "full" /\ pc = "returned" /\ exit_code = 0
    /\ Len(log) = Len(ICON_SIZES) + 2
    /\ fs.files["icon_512x512@2x.png"].side = 1024

ManifestEntry(e) ==
    [filename |-> e[3], idiom |-> "mac",
     scale |-> ToString(e[2]) \o "x",
     size |-> ToString(e[1]) \o "x" \o ToString(e[1])]

\* C5: the manifest a run writes has exactly ten image entries, the i-th one
\* being the i-th ICON_SIZES triple (filename, "<scale>x", "<base>x<base>",
\* idiom "mac"); it is the same for both scripts, whatever the logo and shadow.
C5_ManifestMatchesCatalog ==
    (\E i \in 1..Len(log) : log[i].op = "manifest")
      => LET m == fs.files[ContentsName]
             cat == Catalog(script)
         IN  /\ m.kind = "json"
             /\ Len(m.data.images) = 10
             /\ Len(cat) = 10
             /\ \A i \in 1..10 : m.data.images[i] = ManifestEntry(cat[i])
             /\ m.data.info = [author |-> "xcode", version |-> 1]
             /\ m.data = update_contents_json
             /\ m.data = create_contents_json

C5_Witness ==
    /\ script = "fallback" /\ pc = "returned" /\ exit_code = 0
    /\ fs.files[ContentsName].kind = "json"
    /\ fs.files[ContentsName].data.images[10].size = "512x512"

\* C6: a second run with the same logo and shadow as the previous one, neither
\* run hit by an I/O failure, leaves the same files with the same contents in
\* the output directory and exits with the same status; the packer may succeed
\* or fail in either run.
C6_RerunIsIdempotent ==
    (/\ run >= 2 /\ Terminated
     /\ NoFault /\ prev.env.fault = "none"
     /\ logo = prev.logo /\ shadow = prev.shadow)
      => /\ fs.output_dir = prev.output_dir
         /\ fs.files = prev.files
         /\ exit_code = prev.exit_code
         /\ pc = prev.pc

C6_Witness ==
    /\ script = "full" /\ run = 2 /\ pc = "returned" /\ NoFault
    /\ prev.env.fault = "none" /\ prev.env.packer = "nonzero" /\ env.packer = "ok"
    /\ logo = prev.logo /\ logo # NoFile /\ shadow = prev.shadow
    /\ fs.files = prev.files /\ fs.files[ContentsName].kind = "json"

---------------------------------------------------------------------------
(* Properties of the gradients *)

GradDone == gsize >= 1 /\ gy = gsize

\* C8: fallback gradient, size >= 2: row 0 is the top colour, every row y with
\* y / (size - 1) >= 0.7 is exactly the bottom colour, every row is uniform.
C8_FallbackGradientEnds ==
    (GradDone /\ gsize >= 2)
      => /\ \A x \in 0..(gsize - 1) : img[<<x, 0>>] = <<57, 62, 62>>
         /\ \A y \in 0..(gsize - 1) :
               (10 * y >= 7 * (gsize - 1))
                  => \A x \in 0..(gsize - 1) : img[<<x, y>>] = <<34, 36, 43>>
         /\ \A y \in 0..(gsize - 1) :
               \A x \in 0..(gsize - 1) : img[<<x, y>>] = img[<<0, y>>]

\* Size 11: row 7 sits exactly on the 0.7 threshold.
C8_Witness ==
    /\ gsize = 11 /\ gy = gsize
    /\ img[<<10, 7>>] = <<34, 36, 43>>
    /\ img[<<10, 6>>] # <<34, 36, 43>>

\* C9: full gradient: for size >= 2 the four corner pixels are the four corner
\* colours with alpha 255; for size 1 the single pixel is the top-left colour.
C9_FullGradientCorners ==
    GradDone
      => /\ img[<<0, 0>>] = <<20, 45, 55, 255>>
         /\ img[<<gsize - 1, 0>>] = (IF gsize >= 2 THEN <<35, 40, 70, 255>> ELSE <<20, 45, 55, 255>>)
         /\ img[<<0, gsize - 1>>] = (IF gsize >= 2 THEN <<25, 50, 65, 255>> ELSE <<20, 45, 55, 255>>)
         /\ img[<<gsize - 1, gsize - 1>>] =
               (IF gsize >= 2 THEN <<55, 30, 75, 255>> ELSE <<20, 45, 55, 255>>)

C9_Witness ==
    /\ gsize = 16 /\ gy = gsize
    /\ img[<<15, 15>>] = <<55, 30, 75, 255>>
    /\ img[<<15, 0>>] = <<35, 40, 70, 255>>

---------------------------------------------------------------------------
(* Properties of the logo fit *)

\* C10: fallback create_icon, every catalog entry, every logo with width >= 1
\* and height >= 1: the resized logo is non-empty, its longest dimension is
\* int(0.70 * actual_size), the other one is not longer, it lies inside the
\* canvas at the integer-divided offsets, and opposite margins differ by at
\* most one pixel.
C10_LogoFitsInsideCanvas ==
    fit.stage = "centered"
      => LET a == FitActualSize
             L == (7 * a) \div 10
             nw == fit.new_width
             nh == fit.new_height
             right == a - fit.x_offset - nw
             bottom == a - fit.y_offset - nh
         IN  /\ nw >= 1 /\ nh >= 1
             /\ (IF nw >= nh THEN nw ELSE nh) = L
             /\ nw <= L /\ nh <= L
             /\ fit.x_offset >= 0 /\ fit.x_offset + nw <= a
             /\ fit.y_offset >= 0 /\ fit.y_offset + nh <= a
             /\ right - fit.x_offset \in {0, 1}
             /\ bottom - fit.y_offset \in {0, 1}

\* Everything C10 states except non-emptiness.
C10_GeometryExceptNonEmpty ==
    fit.stage = "centered"
      => LET a == FitActualSize
             L == (7 * a) \div 10
             nw == fit.new_width
             nh == fit.new_height
             right == a - fit.x_offset - nw
             bottom == a - fit.y_offset - nh
         IN  /\ nw >= 0 /\ nh >= 0
             /\ (IF nw >= nh THEN nw ELSE nh) = L
             /\ fit.x_offset >= 0 /\ fit.x_offset + nw <= a
             /\ fit.y_offset >= 0 /\ fit.y_offset + nh <= a
             /\ right - fit.x_offset \in {0, 1}
             /\ bottom - fit.y_offset \in {0, 1}

===========================================================================
